---- MODULE Spec2Model ----
(***************************************************************************)
(* Order fulfilment of ascle-01/Merjane: the three product strategies      *)
(* (NORMAL, SEASONAL, EXPIRABLE), ProductService's dispatch and batch      *)
(* processing, and the controller that loads an order's products and hands *)
(* them to the service.  Time is in milliseconds, as in the code.          *)
(***************************************************************************)
EXTENDS Integers, Sequences, FiniteSets, TLC

\* ------------------------------------------------------------------ bounds
NumProducts == 2      \* rows of the products table
NumRuns == 2          \* concurrent POST /orders/:orderId/processOrder requests
MaxAvail == 2         \* largest initial `available`
MaxLeadTime == 1      \* largest `leadTime`, in days
MaxClock == 1         \* the clock runs from 0 to MaxClock milliseconds

\* --------------------------------------------------------------- constants
millisecondsPerDay == 1000 * 60 * 60 * 24

Prods == 1..NumProducts
Runs == 1..NumRuns

\* A date column that holds null.
Null == -1

\* Dates a catalogue row may carry: the clock's first instant, and a day later.
DateValues == {0, millisecondsPerDay}
DateOrNull == DateValues \cup {Null}

\* JavaScript truthiness of a nullable Date column: null is falsy, a Date is truthy.
Truthy(d) == d # Null

NameOf(id) == IF id = 1 THEN "P1" ELSE IF id = 2 THEN "P2" ELSE "P3"

\* ------------------------------------------------------------ data model
Product(id, type, available, leadTime, expiryDate, seasonStartDate, seasonEndDate) ==
  [id |-> id, type |-> type, name |-> NameOf(id), available |-> available,
   leadTime |-> leadTime, expiryDate |-> expiryDate,
   seasonStartDate |-> seasonStartDate, seasonEndDate |-> seasonEndDate]

OrderProcessingResult(success, productUpdated, availableDecremented) ==
  [success |-> success, productUpdated |-> productUpdated,
   availableDecremented |-> availableDecremented]

\* The three operations of INotificationService, as the calls a mock records.
sendOutOfStockNotification(productName) ==
  [op |-> "sendOutOfStockNotification", args |-> <<productName>>]
sendDelayNotification(leadTime, productName) ==
  [op |-> "sendDelayNotification", args |-> <<leadTime, productName>>]
sendExpirationNotification(productName, expiryDate) ==
  [op |-> "sendExpirationNotification", args |-> <<productName, expiryDate>>]

\* db.update(products).set(product).where(eq(products.id, product.id)):
\* the statement carries the values of `product` at the time set() is called.
DbUpdate(product) == [set |-> product, whereId |-> product.id]

\* Variant of ApplyUpdate: the statement has no where clause.
ApplyUpdate_NoWhere(table, stmt) ==
  [p \in DOMAIN table |-> stmt.set]

\* The effect of the statement on the products table.
ApplyUpdate(table, stmt) ==
  [p \in DOMAIN table |-> IF table[p].id = stmt.whereId THEN stmt.set ELSE table[p]]

\* What one strategy invocation did up to its return: the product object as it
\* left it, the result it resolves with, the notification calls it made and
\* the update statements it issued, in order.
Outcome(product, result, sent, writes) ==
  [thrown |-> FALSE, product |-> product, result |-> result, sent |-> sent,
   writes |-> writes]

NoTime == -2

\* ------------------------------------------------------------ strategies
\* Variants of NormalProcessOrder, each with one slip.
\* The stock guard lets zero through.
NormalProcessOrder_SellsAtZero(product) ==
  IF product.available >= 0
  THEN LET p == [product EXCEPT !.available = @ - 1]
       IN Outcome(p, OrderProcessingResult(TRUE, TRUE, TRUE), <<>>, <<DbUpdate(p)>>)
  ELSE Outcome(product, OrderProcessingResult(FALSE, FALSE, FALSE), <<>>, <<>>)

\* The update statement is built before the decrement.
NormalProcessOrder_WritesBeforeDecrement(product) ==
  IF product.available > 0
  THEN LET p == [product EXCEPT !.available = @ - 1]
       IN Outcome(p, OrderProcessingResult(TRUE, TRUE, TRUE), <<>>, <<DbUpdate(product)>>)
  ELSE IF product.leadTime > 0
  THEN Outcome(product, OrderProcessingResult(TRUE, TRUE, FALSE),
               <<sendDelayNotification(product.leadTime, product.name)>>,
               <<DbUpdate(product)>>)
  ELSE Outcome(product, OrderProcessingResult(FALSE, FALSE, FALSE), <<>>, <<>>)

\* The out-of-stock branch notifies but never writes the product back.
NormalProcessOrder_DelayNotPersisted(product) ==
  IF product.available > 0
  THEN LET p == [product EXCEPT !.available = @ - 1]
       IN Outcome(p, OrderProcessingResult(TRUE, TRUE, TRUE), <<>>, <<DbUpdate(p)>>)
  ELSE IF product.leadTime > 0
  THEN Outcome(product, OrderProcessingResult(TRUE, TRUE, FALSE),
               <<sendDelayNotification(product.leadTime, product.name)>>, <<>>)
  ELSE Outcome(product, OrderProcessingResult(FALSE, FALSE, FALSE), <<>>, <<>>)

\* The lead-time guard lets zero through.
NormalProcessOrder_DelayAtZeroLead(product) ==
  IF product.available > 0
  THEN LET p == [product EXCEPT !.available = @ - 1]
       IN Outcome(p, OrderProcessingResult(TRUE, TRUE, TRUE), <<>>, <<DbUpdate(p)>>)
  ELSE IF product.leadTime >= 0
  THEN Outcome(product, OrderProcessingResult(TRUE, TRUE, FALSE),
               <<sendDelayNotification(product.leadTime, product.name)>>,
               <<DbUpdate(product)>>)
  ELSE Outcome(product, OrderProcessingResult(FALSE, FALSE, FALSE), <<>>, <<>>)

\* The out-of-stock branch writes the product back but reports no update.
NormalProcessOrder_DelayReportsNoUpdate(product) ==
  IF product.available > 0
  THEN LET p == [product EXCEPT !.available = @ - 1]
       IN Outcome(p, OrderProcessingResult(TRUE, TRUE, TRUE), <<>>, <<DbUpdate(p)>>)
  ELSE IF product.leadTime > 0
  THEN Outcome(product, OrderProcessingResult(TRUE, FALSE, FALSE),
               <<sendDelayNotification(product.leadTime, product.name)>>,
               <<DbUpdate(product)>>)
  ELSE Outcome(product, OrderProcessingResult(FALSE, FALSE, FALSE), <<>>, <<>>)

NormalProcessOrder(product) ==
  IF product.available > 0
  THEN LET p == [product EXCEPT !.available = @ - 1]
       IN Outcome(p, OrderProcessingResult(TRUE, TRUE, TRUE), <<>>, <<DbUpdate(p)>>)
  ELSE IF product.leadTime > 0
  THEN Outcome(product, OrderProcessingResult(TRUE, TRUE, FALSE),
               <<sendDelayNotification(product.leadTime, product.name)>>,
               <<DbUpdate(product)>>)
  ELSE Outcome(product, OrderProcessingResult(FALSE, FALSE, FALSE), <<>>, <<>>)

\* Variants of handleOutOfStockOrOutOfSeason, each with one slip.
\* The before-season branch writes the product back.
handleOutOfStockOrOutOfSeason_PersistsBeforeSeason(product, currentDate) ==
  IF Truthy(product.seasonStartDate) /\ currentDate < product.seasonStartDate
  THEN Outcome(product, OrderProcessingResult(FALSE, TRUE, FALSE),
               <<sendOutOfStockNotification(product.name)>>, <<DbUpdate(product)>>)
  ELSE LET restockDate == currentDate + (product.leadTime * millisecondsPerDay)
       IN IF Truthy(product.seasonEndDate) /\ restockDate > product.seasonEndDate
          THEN LET p == [product EXCEPT !.available = 0]
               IN Outcome(p, OrderProcessingResult(FALSE, TRUE, FALSE),
                          <<sendOutOfStockNotification(product.name)>>,
                          <<DbUpdate(p)>>)
          ELSE Outcome(product, OrderProcessingResult(TRUE, TRUE, FALSE),
                       <<sendDelayNotification(product.leadTime, product.name)>>,
                       <<DbUpdate(product)>>)

\* The too-late branch leaves available as it is.
handleOutOfStockOrOutOfSeason_KeepsStock(product, currentDate) ==
  IF Truthy(product.seasonStartDate) /\ currentDate < product.seasonStartDate
  THEN Outcome(product, OrderProcessingResult(FALSE, FALSE, FALSE),
               <<sendOutOfStockNotification(product.name)>>, <<>>)
  ELSE LET restockDate == currentDate + (product.leadTime * millisecondsPerDay)
       IN IF Truthy(product.seasonEndDate) /\ restockDate > product.seasonEndDate
          THEN Outcome(product, OrderProcessingResult(FALSE, TRUE, FALSE),
                       <<sendOutOfStockNotification(product.name)>>,
                       <<DbUpdate(product)>>)
          ELSE Outcome(product, OrderProcessingResult(TRUE, TRUE, FALSE),
                       <<sendDelayNotification(product.leadTime, product.name)>>,
                       <<DbUpdate(product)>>)

\* A restock on the season's end counts as too late.
handleOutOfStockOrOutOfSeason_RestockOnEndTooLate(product, currentDate) ==
  IF Truthy(product.seasonStartDate) /\ currentDate < product.seasonStartDate
  THEN Outcome(product, OrderProcessingResult(FALSE, FALSE, FALSE),
               <<sendOutOfStockNotification(product.name)>>, <<>>)
  ELSE LET restockDate == currentDate + (product.leadTime * millisecondsPerDay)
       IN IF Truthy(product.seasonEndDate) /\ restockDate >= product.seasonEndDate
          THEN LET p == [product EXCEPT !.available = 0]
               IN Outcome(p, OrderProcessingResult(FALSE, TRUE, FALSE),
                          <<sendOutOfStockNotification(product.name)>>,
                          <<DbUpdate(p)>>)
          ELSE Outcome(product, OrderProcessingResult(TRUE, TRUE, FALSE),
                       <<sendDelayNotification(product.leadTime, product.name)>>,
                       <<DbUpdate(product)>>)

\* The before-season branch returns without notifying.
handleOutOfStockOrOutOfSeason_SilentBeforeSeason(product, currentDate) ==
  IF Truthy(product.seasonStartDate) /\ currentDate < product.seasonStartDate
  THEN Outcome(product, OrderProcessingResult(FALSE, FALSE, FALSE), <<>>, <<>>)
  ELSE LET restockDate == currentDate + (product.leadTime * millisecondsPerDay)
       IN IF Truthy(product.seasonEndDate) /\ restockDate > product.seasonEndDate
          THEN LET p == [product EXCEPT !.available = 0]
               IN Outcome(p, OrderProcessingResult(FALSE, TRUE, FALSE),
                          <<sendOutOfStockNotification(product.name)>>,
                          <<DbUpdate(p)>>)
          ELSE Outcome(product, OrderProcessingResult(TRUE, TRUE, FALSE),
                       <<sendDelayNotification(product.leadTime, product.name)>>,
                       <<DbUpdate(product)>>)

\* The delay branch reports a decrement it did not make.
handleOutOfStockOrOutOfSeason_DelayReportsDecrement(product, currentDate) ==
  IF Truthy(product.seasonStartDate) /\ currentDate < product.seasonStartDate
  THEN Outcome(product, OrderProcessingResult(FALSE, FALSE, FALSE),
               <<sendOutOfStockNotification(product.name)>>, <<>>)
  ELSE LET restockDate == currentDate + (product.leadTime * millisecondsPerDay)
       IN IF Truthy(product.seasonEndDate) /\ restockDate > product.seasonEndDate
          THEN LET p == [product EXCEPT !.available = 0]
               IN Outcome(p, OrderProcessingResult(FALSE, TRUE, FALSE),
                          <<sendOutOfStockNotification(product.name)>>,
                          <<DbUpdate(p)>>)
          ELSE Outcome(product, OrderProcessingResult(TRUE, TRUE, TRUE),
                       <<sendDelayNotification(product.leadTime, product.name)>>,
                       <<DbUpdate(product)>>)

handleOutOfStockOrOutOfSeason(product, currentDate) ==
  IF Truthy(product.seasonStartDate) /\ currentDate < product.seasonStartDate
  THEN Outcome(product, OrderProcessingResult(FALSE, FALSE, FALSE),
               <<sendOutOfStockNotification(product.name)>>, <<>>)
  ELSE LET restockDate == currentDate + (product.leadTime * millisecondsPerDay)
       IN IF Truthy(product.seasonEndDate) /\ restockDate > product.seasonEndDate
          THEN LET p == [product EXCEPT !.available = 0]
               IN Outcome(p, OrderProcessingResult(FALSE, TRUE, FALSE),
                          <<sendOutOfStockNotification(product.name)>>,
                          <<DbUpdate(p)>>)
          ELSE Outcome(product, OrderProcessingResult(TRUE, TRUE, FALSE),
                       <<sendDelayNotification(product.leadTime, product.name)>>,
                       <<DbUpdate(product)>>)

\* Variant of SeasonalProcessOrder: the season's end is excluded.
SeasonalProcessOrder_EndExclusive(product, currentDate) ==
  IF /\ product.available > 0
     /\ Truthy(product.seasonStartDate)
     /\ Truthy(product.seasonEndDate)
     /\ currentDate >= product.seasonStartDate
     /\ currentDate < product.seasonEndDate
  THEN LET p == [product EXCEPT !.available = @ - 1]
       IN Outcome(p, OrderProcessingResult(TRUE, TRUE, TRUE), <<>>, <<DbUpdate(p)>>)
  ELSE handleOutOfStockOrOutOfSeason(product, currentDate)

\* A season bound that is not set is taken as open.
SeasonalProcessOrder_MissingBoundIsOpen(product, currentDate) ==
  IF /\ product.available > 0
     /\ (~Truthy(product.seasonStartDate) \/ currentDate >= product.seasonStartDate)
     /\ (~Truthy(product.seasonEndDate) \/ currentDate <= product.seasonEndDate)
  THEN LET p == [product EXCEPT !.available = @ - 1]
       IN Outcome(p, OrderProcessingResult(TRUE, TRUE, TRUE), <<>>, <<DbUpdate(p)>>)
  ELSE handleOutOfStockOrOutOfSeason(product, currentDate)

SeasonalProcessOrder(product, currentDate) ==
  IF /\ product.available > 0
     /\ Truthy(product.seasonStartDate)
     /\ Truthy(product.seasonEndDate)
     /\ currentDate >= product.seasonStartDate
     /\ currentDate <= product.seasonEndDate
  THEN LET p == [product EXCEPT !.available = @ - 1]
       IN Outcome(p, OrderProcessingResult(TRUE, TRUE, TRUE), <<>>, <<DbUpdate(p)>>)
  ELSE handleOutOfStockOrOutOfSeason(product, currentDate)

\* Variant of handleExpiredOrOutOfStock: no check that the expiry date is set.
handleExpiredOrOutOfStock_NoNullCheck(product) ==
  LET p == [product EXCEPT !.available = 0]
  IN Outcome(p, OrderProcessingResult(FALSE, TRUE, FALSE),
             <<sendExpirationNotification(product.name, product.expiryDate)>>,
             <<DbUpdate(p)>>)

\* Variant of handleExpiredOrOutOfStock: an out-of-stock notification is sent
\* on top of the expiration notification.
handleExpiredOrOutOfStock_NotifiesTwice(product) ==
  IF ~Truthy(product.expiryDate)
  THEN Outcome(product, OrderProcessingResult(FALSE, FALSE, FALSE), <<>>, <<>>)
  ELSE LET p == [product EXCEPT !.available = 0]
       IN Outcome(p, OrderProcessingResult(FALSE, TRUE, FALSE),
                  <<sendExpirationNotification(product.name, product.expiryDate),
                    sendOutOfStockNotification(product.name)>>,
                  <<DbUpdate(p)>>)

\* Variant of handleExpiredOrOutOfStock: the expiry date is cleared along with
\* the stock.
handleExpiredOrOutOfStock_ClearsExpiryDate(product) ==
  IF ~Truthy(product.expiryDate)
  THEN Outcome(product, OrderProcessingResult(FALSE, FALSE, FALSE), <<>>, <<>>)
  ELSE LET p == [product EXCEPT !.available = 0, !.expiryDate = Null]
       IN Outcome(p, OrderProcessingResult(FALSE, TRUE, FALSE),
                  <<sendExpirationNotification(product.name, product.expiryDate)>>,
                  <<DbUpdate(p)>>)

handleExpiredOrOutOfStock(product) ==
  IF ~Truthy(product.expiryDate)
  THEN Outcome(product, OrderProcessingResult(FALSE, FALSE, FALSE), <<>>, <<>>)
  ELSE LET p == [product EXCEPT !.available = 0]
       IN Outcome(p, OrderProcessingResult(FALSE, TRUE, FALSE),
                  <<sendExpirationNotification(product.name, product.expiryDate)>>,
                  <<DbUpdate(p)>>)

\* Variants of ExpirableProcessOrder, each with one slip.
\* The expiry comparison is reversed.
ExpirableProcessOrder_ComparisonReversed(product, currentDate) ==
  IF /\ product.available > 0
     /\ Truthy(product.expiryDate)
     /\ product.expiryDate < currentDate
  THEN LET p == [product EXCEPT !.available = @ - 1]
       IN Outcome(p, OrderProcessingResult(TRUE, TRUE, TRUE), <<>>, <<DbUpdate(p)>>)
  ELSE handleExpiredOrOutOfStock(product)

\* A product at the instant of its expiry is still sold.
ExpirableProcessOrder_ExpiryInclusive(product, currentDate) ==
  IF /\ product.available > 0
     /\ Truthy(product.expiryDate)
     /\ product.expiryDate >= currentDate
  THEN LET p == [product EXCEPT !.available = @ - 1]
       IN Outcome(p, OrderProcessingResult(TRUE, TRUE, TRUE), <<>>, <<DbUpdate(p)>>)
  ELSE handleExpiredOrOutOfStock(product)

ExpirableProcessOrder(product, currentDate) ==
  IF /\ product.available > 0
     /\ Truthy(product.expiryDate)
     /\ product.expiryDate > currentDate
  THEN LET p == [product EXCEPT !.available = @ - 1]
       IN Outcome(p, OrderProcessingResult(TRUE, TRUE, TRUE), <<>>, <<DbUpdate(p)>>)
  ELSE handleExpiredOrOutOfStock(product)

\* ------------------------------------------------------------ the service
\* The keys of ProductService.strategies.
strategies == {"NORMAL", "SEASONAL", "EXPIRABLE"}

\* The strategies that call new Date().
ReadsClock(type) == type \in {"SEASONAL", "EXPIRABLE"}

Thrown(message) ==
  [thrown |-> TRUE, message |-> message]

UnsupportedMessage(type) == <<"Unsupported product type: ", type>>

\* Variant of processProductOrder: a type with no strategy is handled as NORMAL.
processProductOrder_DefaultsToNormal(product, currentDate) ==
  IF product.type = "SEASONAL" THEN SeasonalProcessOrder(product, currentDate)
  ELSE IF product.type = "EXPIRABLE" THEN ExpirableProcessOrder(product, currentDate)
  ELSE NormalProcessOrder(product)

\* processProductOrder up to the first await of the strategy it delegates to.
processProductOrder(product, currentDate) ==
  IF product.type \notin strategies
  THEN Thrown(UnsupportedMessage(product.type))
  ELSE IF product.type = "NORMAL" THEN NormalProcessOrder(product)
  ELSE IF product.type = "SEASONAL" THEN SeasonalProcessOrder(product, currentDate)
  ELSE ExpirableProcessOrder(product, currentDate)

\* ------------------------------------------------------------------ state
VARIABLES
  db,             \* the products table: row per product
  orderProducts,  \* the product ids the stored order is linked to, in order
  now,            \* the clock, in milliseconds
  pc,             \* per request: "idle", "loaded", "awaiting", "resolved", "rejected"
  mem,            \* per request: the product objects loaded for the order
  task,           \* per request: one record per product of the batch
  returned        \* per request: what processMultipleProducts settled with

vars == <<db, orderProducts, now, pc, mem, task, returned>>

\* A product the batch has not reached yet.
PendingTask == [st |-> "pending"]

\* ------------------------------------------------------------ initial state
ProductTypes == {"NORMAL", "SEASONAL", "EXPIRABLE", "UNKNOWN"}

\* Every row a product id may hold with at most maxAvail units: dates only in
\* the columns of its type.
ProductSetUpTo(id, maxAvail) ==
  UNION {
    { Product(id, "NORMAL", a, l, Null, Null, Null),
      Product(id, "UNKNOWN", a, l, Null, Null, Null) }
    \cup { Product(id, "EXPIRABLE", a, l, e, Null, Null) : e \in DateOrNull }
    \cup { Product(id, "SEASONAL", a, l, Null, s, e) : s \in DateOrNull, e \in DateOrNull }
    : a \in 0..maxAvail, l \in 0..MaxLeadTime }

ProductSet(id) == ProductSetUpTo(id, MaxAvail)

\* Well-formed rows with one season window and one expiry date.
BatchProductSet(id) ==
  { Product(id, "UNKNOWN", 1, 1, Null, Null, Null) }
  \cup UNION {
    { Product(id, "NORMAL", a, l, Null, Null, Null),
      Product(id, "EXPIRABLE", a, l, millisecondsPerDay, Null, Null),
      Product(id, "SEASONAL", a, l, Null, 0, millisecondsPerDay) }
    : a \in {0, MaxAvail}, l \in {0, MaxLeadTime} }

DefaultProduct(id) == Product(id, "NORMAL", 1, 1, Null, Null, Null)

InitRequests ==
  /\ now = 0
  /\ pc = [r \in Runs |-> "idle"]
  /\ mem = [r \in Runs |-> <<>>]
  /\ task = [r \in Runs |-> <<>>]
  /\ returned = [r \in Runs |-> <<>>]

\* An order of one product, whose row takes every value of ProductSet.
InitSingle ==
  /\ \E p \in ProductSet(1) :
       db = [q \in Prods |-> IF q = 1 THEN p ELSE DefaultProduct(q)]
  /\ orderProducts = <<1>>
  /\ InitRequests

\* An order of every product of the catalogue.
InitBatch ==
  /\ db \in [Prods -> UNION {BatchProductSet(q) : q \in Prods}]
  /\ \A q \in Prods : db[q].id = q
  /\ orderProducts = [i \in Prods |-> i]
  /\ InitRequests

Init == InitSingle

\* ---------------------------------------------------------------- actions
\* The clock advances by a millisecond.
Tick ==
  /\ now < MaxClock
  /\ now' = now + 1
  /\ UNCHANGED <<db, orderProducts, pc, mem, task, returned>>

\* The controller fetches the order with its products: each request gets its
\* own copies of the rows as they are stored at that moment.  Requests are
\* numbered in the order in which they arrive.
LoadOrder(r) ==
  /\ pc[r] = "idle"
  /\ \A q \in 1..(r - 1) : pc[q] # "idle"
  /\ Len(orderProducts) > 0
  /\ pc' = [pc EXCEPT ![r] = "loaded"]
  /\ mem' = [mem EXCEPT ![r] = [i \in 1..Len(orderProducts) |-> db[orderProducts[i]]]]
  /\ task' = [task EXCEPT ![r] = [i \in 1..Len(orderProducts) |-> PendingTask]]
  /\ UNCHANGED <<db, orderProducts, now, returned>>

\* The first product of the batch that products.map has not reached.
NextIndex(r) ==
  IF \E i \in 1..Len(task[r]) : task[r][i].st = "pending"
  THEN CHOOSE i \in 1..Len(task[r]) :
         /\ task[r][i].st = "pending"
         /\ \A j \in 1..(i - 1) : task[r][j].st # "pending"
  ELSE 0

\* How many promises of the request's batch have settled.
Settled(r) ==
  Cardinality({i \in 1..Len(task[r]) : task[r][i].st \in {"fulfilled", "rejected"}})

\* Variant of StartProduct: a loop that awaits each product before it calls
\* processProductOrder on the next.
StartProduct_AwaitsPrevious(r) ==
  /\ pc[r] \in {"loaded", "awaiting"}
  /\ NextIndex(r) # 0
  /\ \A j \in 1..(NextIndex(r) - 1) : task[r][j].st \in {"fulfilled", "rejected"}
  /\ LET i == NextIndex(r)
         product == mem[r][i]
         T == IF ReadsClock(product.type) THEN now ELSE NoTime
         out == processProductOrder(product, T)
         st == IF out.thrown THEN "rejected"
               ELSE IF out.writes # <<>> THEN "writing" ELSE "fulfilled"
     IN /\ task' = [task EXCEPT ![r][i] =
                      [st |-> st, arg |-> product, T |-> T, out |-> out,
                       before |-> db[product.id], after |-> db[product.id],
                       rank |-> IF st = "writing" THEN 0 ELSE Settled(r) + 1]]
        /\ mem' = [mem EXCEPT ![r][i] = IF out.thrown THEN product ELSE out.product]
  /\ pc' = [pc EXCEPT ![r] = "awaiting"]
  /\ UNCHANGED <<db, orderProducts, now, returned>>

\* products.map calls processProductOrder on the next product: the call runs
\* to the strategy's first await (or to its return, or to the throw).
StartProduct(r) ==
  /\ pc[r] \in {"loaded", "awaiting"}
  /\ NextIndex(r) # 0
  /\ LET i == NextIndex(r)
         product == mem[r][i]
         T == IF ReadsClock(product.type) THEN now ELSE NoTime
         out == processProductOrder(product, T)
         st == IF out.thrown THEN "rejected"
               ELSE IF out.writes # <<>> THEN "writing" ELSE "fulfilled"
     IN /\ task' = [task EXCEPT ![r][i] =
                      [st |-> st, arg |-> product, T |-> T, out |-> out,
                       before |-> db[product.id], after |-> db[product.id],
                       rank |-> IF st = "writing" THEN 0 ELSE Settled(r) + 1]]
        /\ mem' = [mem EXCEPT ![r][i] = IF out.thrown THEN product ELSE out.product]
  /\ pc' = [pc EXCEPT ![r] = "awaiting"]
  /\ UNCHANGED <<db, orderProducts, now, returned>>

\* The update a strategy awaits is executed, and the strategy returns.
CompleteWrite(r, i) ==
  /\ i \in 1..Len(task[r])
  /\ task[r][i].st = "writing"
  /\ db' = ApplyUpdate(db, task[r][i].out.writes[1])
  /\ task' = [task EXCEPT ![r][i].st = "fulfilled",
                          ![r][i].after = db'[task[r][i].arg.id],
                          ![r][i].rank = Settled(r) + 1]
  /\ UNCHANGED <<orderProducts, now, pc, mem, returned>>

\* Variant of ResolveBatch: the results are collected as the promises settle.
ResolveBatch_CompletionOrder(r) ==
  /\ pc[r] = "awaiting"
  /\ \A i \in 1..Len(task[r]) : task[r][i].st = "fulfilled"
  /\ pc' = [pc EXCEPT ![r] = "resolved"]
  /\ returned' = [returned EXCEPT ![r] =
                    [n \in 1..Len(task[r]) |->
                       LET i == CHOOSE j \in 1..Len(task[r]) : task[r][j].rank = n
                       IN task[r][i].out.result]]
  /\ UNCHANGED <<db, orderProducts, now, mem, task>>

\* Variant of ResolveBatch: once every promise has settled the batch resolves,
\* with an all-false result in the place of each rejected promise.
ResolveBatch_SkipsRejected(r) ==
  /\ pc[r] = "awaiting"
  /\ \A i \in 1..Len(task[r]) : task[r][i].st \in {"fulfilled", "rejected"}
  /\ pc' = [pc EXCEPT ![r] = "resolved"]
  /\ returned' = [returned EXCEPT ![r] =
                    [i \in 1..Len(task[r]) |->
                       IF task[r][i].st = "fulfilled"
                       THEN task[r][i].out.result
                       ELSE OrderProcessingResult(FALSE, FALSE, FALSE)]]
  /\ UNCHANGED <<db, orderProducts, now, mem, task>>

\* Promise.all resolves: every promise of the batch is fulfilled.
ResolveBatch(r) ==
  /\ pc[r] = "awaiting"
  /\ \A i \in 1..Len(task[r]) : task[r][i].st = "fulfilled"
  /\ pc' = [pc EXCEPT ![r] = "resolved"]
  /\ returned' = [returned EXCEPT ![r] =
                    [i \in 1..Len(task[r]) |-> task[r][i].out.result]]
  /\ UNCHANGED <<db, orderProducts, now, mem, task>>

\* Variant of RejectBatch: the batch fails at the first product that throws and
\* the products after it are never processed.
RejectBatch_AbortsRest(r) ==
  /\ pc[r] = "awaiting"
  /\ \E i \in 1..Len(task[r]) :
       /\ task[r][i].st = "rejected"
       /\ \A j \in 1..(i - 1) : task[r][j].st # "rejected"
       /\ returned' = [returned EXCEPT ![r] = task[r][i].out.message]
  /\ pc' = [pc EXCEPT ![r] = "rejected"]
  /\ UNCHANGED <<db, orderProducts, now, mem, task>>

\* Promise.all rejects: the map is over and one promise of the batch rejected.
RejectBatch(r) ==
  /\ pc[r] = "awaiting"
  /\ NextIndex(r) = 0
  /\ \E i \in 1..Len(task[r]) :
       /\ task[r][i].st = "rejected"
       /\ \A j \in 1..(i - 1) : task[r][j].st # "rejected"
       /\ returned' = [returned EXCEPT ![r] = task[r][i].out.message]
  /\ pc' = [pc EXCEPT ![r] = "rejected"]
  /\ UNCHANGED <<db, orderProducts, now, mem, task>>

Next ==
  \/ Tick
  \/ \E r \in Runs : LoadOrder(r)
  \/ \E r \in Runs : StartProduct(r)
  \/ \E r \in Runs, i \in Prods : CompleteWrite(r, i)
  \/ \E r \in Runs : ResolveBatch(r)
  \/ \E r \in Runs : RejectBatch(r)

\* Requests for an order of one product, over every row that product may hold.
Spec == Init /\ [][Next]_vars

\* One request for an order of every product of a well-formed catalogue.
NextBatch ==
  \/ Tick
  \/ LoadOrder(1)
  \/ StartProduct(1)
  \/ \E i \in Prods : CompleteWrite(1, i)
  \/ ResolveBatch(1)
  \/ RejectBatch(1)

SpecBatch == InitBatch /\ [][NextBatch]_vars

\* A request has run to its end: its batch settled and every write it issued
\* is done.
Complete(r) ==
  /\ pc[r] \in {"resolved", "rejected"}
  /\ \A i \in 1..Len(task[r]) : task[r][i].st \in {"fulfilled", "rejected"}

\* The controller fetches the order once every earlier request has run to its
\* end: the calls are sequential.
LoadOrderAfterCompletion(r) ==
  /\ \A q \in 1..(r - 1) : Complete(q)
  /\ LoadOrder(r)

NextSequential ==
  \/ Tick
  \/ \E r \in Runs : LoadOrderAfterCompletion(r)
  \/ \E r \in Runs : StartProduct(r)
  \/ \E r \in Runs, i \in Prods : CompleteWrite(r, i)
  \/ \E r \in Runs : ResolveBatch(r)
  \/ \E r \in Runs : RejectBatch(r)

\* An order of one product that holds up to one unit more than the requests
\* can sell.
InitSequential ==
  /\ \E p \in ProductSetUpTo(1, NumRuns + 1) :
       db = [q \in Prods |-> IF q = 1 THEN p ELSE DefaultProduct(q)]
  /\ orderProducts = <<1>>
  /\ InitRequests

\* Sequential requests for an order of one product.
SpecSequential == InitSequential /\ [][NextSequential]_vars

\* ------------------------------------------------- the clock, step by step
\* The positions of the request's batch whose strategy has read the clock and
\* has not yet made its comparisons.
Running(r) == {i \in 1..Len(task[r]) : task[r][i].st = "running"}

\* const currentDate = new Date(): the strategy of the next product, SEASONAL
\* or EXPIRABLE, reads the clock.  This is its first statement.
ReadCurrentDate(r) ==
  /\ pc[r] \in {"loaded", "awaiting"}
  /\ Running(r) = {}
  /\ NextIndex(r) # 0
  /\ ReadsClock(mem[r][NextIndex(r)].type)
  /\ LET i == NextIndex(r)
     IN task' = [task EXCEPT ![r][i] =
                   [st |-> "running", arg |-> mem[r][i], T |-> now]]
  /\ pc' = [pc EXCEPT ![r] = "awaiting"]
  /\ UNCHANGED <<db, orderProducts, now, mem, returned>>

\* Variant of DecideProduct: each comparison calls new Date() again.
DecideProduct_RereadsClock(r) ==
  /\ pc[r] = "awaiting"
  /\ \E i \in Running(r) :
       LET product == task[r][i].arg
           T == task[r][i].T
           out == processProductOrder(product, now)
           st == IF out.writes # <<>> THEN "writing" ELSE "fulfilled"
       IN /\ task' = [task EXCEPT ![r][i] =
                        [st |-> st, arg |-> product, T |-> T, out |-> out,
                         decidedAt |-> now,
                         before |-> db[product.id], after |-> db[product.id],
                         rank |-> IF st = "writing" THEN 0 ELSE Settled(r) + 1]]
          /\ mem' = [mem EXCEPT ![r][i] = out.product]
  /\ UNCHANGED <<db, orderProducts, now, pc, returned>>

\* The rest of the strategy up to its first await, some time after it read
\* the clock: every comparison is made against the currentDate it holds.
DecideProduct(r) ==
  /\ pc[r] = "awaiting"
  /\ \E i \in Running(r) :
       LET product == task[r][i].arg
           T == task[r][i].T
           out == processProductOrder(product, T)
           st == IF out.writes # <<>> THEN "writing" ELSE "fulfilled"
       IN /\ task' = [task EXCEPT ![r][i] =
                        [st |-> st, arg |-> product, T |-> T, out |-> out,
                         decidedAt |-> now,
                         before |-> db[product.id], after |-> db[product.id],
                         rank |-> IF st = "writing" THEN 0 ELSE Settled(r) + 1]]
          /\ mem' = [mem EXCEPT ![r][i] = out.product]
  /\ UNCHANGED <<db, orderProducts, now, pc, returned>>

\* processProductOrder on a product whose strategy reads no clock, or that
\* has no strategy.
StartProductNoClock(r) ==
  /\ Running(r) = {}
  /\ NextIndex(r) # 0
  /\ ~ReadsClock(mem[r][NextIndex(r)].type)
  /\ StartProduct(r)

NextClock ==
  \/ Tick
  \/ LoadOrder(1)
  \/ ReadCurrentDate(1)
  \/ DecideProduct(1)
  \/ StartProductNoClock(1)
  \/ \E i \in Prods : CompleteWrite(1, i)
  \/ ResolveBatch(1)
  \/ RejectBatch(1)

\* One request for an order of one product, the clock free to advance between
\* a strategy's reading of it and its comparisons.
SpecClock == InitSingle /\ [][NextClock]_vars

\* ------------------------------------------------------------ invocations
\* The strategy invocations made so far: request r, position i of its batch.
Invocations ==
  {k \in Runs \X Prods :
     /\ k[2] \in 1..Len(task[k[1]])
     /\ task[k[1]][k[2]].st # "pending"}

Inv(k) == task[k[1]][k[2]]

\* The invocations a strategy ran for (the product's type is registered).
StrategyInvocations == {k \in Invocations : ~Inv(k).out.thrown}

Decremented(product) == [product EXCEPT !.available = @ - 1]
ForcedToZero(product) == [product EXCEPT !.available = 0]

Fulfilled(k) == Inv(k).st = "fulfilled"

ResultDecremented == OrderProcessingResult(TRUE, TRUE, TRUE)
ResultDelayed == OrderProcessingResult(TRUE, TRUE, FALSE)
ResultUnavailable == OrderProcessingResult(FALSE, TRUE, FALSE)
ResultNothing == OrderProcessingResult(FALSE, FALSE, FALSE)

\* The invocation took the branch that sells one unit: it leaves the product
\* object one lower, issues exactly that update, notifies nobody, and the row
\* read back once the update is done holds the lowered value.
SoldOne(k) ==
  /\ Inv(k).out.result = ResultDecremented
  /\ Inv(k).out.sent = <<>>
  /\ Inv(k).out.product = Decremented(Inv(k).arg)
  /\ Inv(k).out.writes = <<DbUpdate(Decremented(Inv(k).arg))>>
  /\ Inv(k).st \in {"writing", "fulfilled"}
  /\ Fulfilled(k) => Inv(k).after.available = Inv(k).arg.available - 1

\* The invocation issued no update: it is over at once and the stored row is
\* what it was, as is the product object.
WroteNothing(k) ==
  /\ Inv(k).out.writes = <<>>
  /\ Inv(k).out.product = Inv(k).arg
  /\ Fulfilled(k)
  /\ Inv(k).after = Inv(k).before

\* The invocation wrote the product object back with no field changed.
WroteUnchanged(k) ==
  /\ Inv(k).out.product = Inv(k).arg
  /\ Inv(k).out.writes = <<DbUpdate(Inv(k).arg)>>
  /\ Inv(k).st \in {"writing", "fulfilled"}
  /\ Fulfilled(k) => Inv(k).after = Inv(k).arg

\* The invocation forced available to 0 and persisted that.
WroteZero(k) ==
  /\ Inv(k).out.product = ForcedToZero(Inv(k).arg)
  /\ Inv(k).out.writes = <<DbUpdate(ForcedToZero(Inv(k).arg))>>
  /\ Inv(k).st \in {"writing", "fulfilled"}
  /\ Fulfilled(k) => Inv(k).after = ForcedToZero(Inv(k).arg)

\* --------------------------------------------------------------------- C1
\* C1: available is never negative, in any product object a request holds and
\* in any stored row, and an invocation that lowered available by one had read
\* a value above zero.
C1_AvailableNeverNegative ==
  /\ \A p \in Prods : db[p].available >= 0
  /\ \A r \in Runs : \A i \in 1..Len(mem[r]) : mem[r][i].available >= 0
  /\ \A k \in StrategyInvocations :
       /\ Inv(k).out.product.available >= 0
       /\ \A w \in 1..Len(Inv(k).out.writes) : Inv(k).out.writes[w].set.available >= 0
       /\ (\/ Inv(k).out.result.availableDecremented
           \/ Inv(k).out.product.available = Inv(k).arg.available - 1)
          => Inv(k).arg.available > 0

\* An invocation of each strategy that found nothing to sell has completed,
\* and so has one that sold the last unit.
C1_Witness ==
  /\ \E k \in StrategyInvocations :
       Fulfilled(k) /\ Inv(k).arg.available = 0 /\ Inv(k).out.writes # <<>>
  /\ \E k \in StrategyInvocations :
       /\ Fulfilled(k) /\ Inv(k).arg.available = 1
       /\ Inv(k).out.result.availableDecremented
       /\ db[Inv(k).arg.id].available = 0

\* --------------------------------------------------------------------- C2
\* C2: a NORMAL product with available = N > 0, whatever its leadTime, is sold:
\* the stored available becomes N-1, the result is all true, nothing is notified.
C2_NormalInStock ==
  \A k \in StrategyInvocations :
    (Inv(k).arg.type = "NORMAL" /\ Inv(k).arg.available > 0) => SoldOne(k)

C2_Witness ==
  \E k \in StrategyInvocations :
    /\ Inv(k).arg.type = "NORMAL" /\ Inv(k).arg.available = 2
    /\ Inv(k).arg.leadTime = 0
    /\ Fulfilled(k) /\ Inv(k).after.available = 1

\* --------------------------------------------------------------------- C3
\* C3: a NORMAL product with available = 0 and leadTime = L > 0 gets exactly one
\* delay notification (L, name), is written back unchanged, and the result is
\* success, updated, not decremented.
C3_NormalDelay ==
  \A k \in StrategyInvocations :
    (Inv(k).arg.type = "NORMAL" /\ Inv(k).arg.available = 0 /\ Inv(k).arg.leadTime > 0)
    => /\ Inv(k).out.sent =
            <<sendDelayNotification(Inv(k).arg.leadTime, Inv(k).arg.name)>>
       /\ WroteUnchanged(k)
       /\ Fulfilled(k) => (Inv(k).after.available = 0 /\ Inv(k).after = Inv(k).before)
       /\ Inv(k).out.result = ResultDelayed

C3_Witness ==
  \E k \in StrategyInvocations :
    /\ Inv(k).arg.type = "NORMAL" /\ Inv(k).arg.available = 0
    /\ Inv(k).arg.leadTime > 0 /\ Fulfilled(k)

\* --------------------------------------------------------------------- C4
\* C4: a NORMAL product with available = 0 and leadTime = 0 fails with all three
\* flags false, no notification and no write.
C4_NormalUnavailable ==
  \A k \in StrategyInvocations :
    (Inv(k).arg.type = "NORMAL" /\ Inv(k).arg.available = 0 /\ Inv(k).arg.leadTime = 0)
    => /\ Inv(k).out.result = ResultNothing
       /\ Inv(k).out.sent = <<>>
       /\ WroteNothing(k)

C4_Witness ==
  \E k \in StrategyInvocations :
    /\ Inv(k).arg.type = "NORMAL" /\ Inv(k).arg.available = 0
    /\ Inv(k).arg.leadTime = 0 /\ Fulfilled(k)

\* ------------------------------------------------------------ season tests
InSeason(k) ==
  /\ Truthy(Inv(k).arg.seasonStartDate)
  /\ Truthy(Inv(k).arg.seasonEndDate)
  /\ Inv(k).arg.seasonStartDate <= Inv(k).T
  /\ Inv(k).T <= Inv(k).arg.seasonEndDate

\* The branch of SeasonalProcessOrder that sells.
SeasonalSale(k) == Inv(k).arg.available > 0 /\ InSeason(k)

BeforeSeason(k) ==
  Truthy(Inv(k).arg.seasonStartDate) /\ Inv(k).T < Inv(k).arg.seasonStartDate

\* T + leadTime days, in milliseconds.
RestockDate(k) == Inv(k).T + Inv(k).arg.leadTime * 86400000

Seasonal(k) == Inv(k).arg.type = "SEASONAL"

\* --------------------------------------------------------------------- C5
\* C5: a SEASONAL product with available = N > 0 and both bounds present is sold
\* at every T with seasonStart <= T <= seasonEnd, the two ends included: stored
\* available N-1, all flags true, no notification.
C5_SeasonalInSeason ==
  \A k \in StrategyInvocations : (Seasonal(k) /\ SeasonalSale(k)) => SoldOne(k)

\* A sale at the instant that is both the season's start and its end.
C5_Witness ==
  \E k \in StrategyInvocations :
    /\ Seasonal(k) /\ Inv(k).arg.available > 0
    /\ Inv(k).T = Inv(k).arg.seasonStartDate
    /\ Inv(k).T = Inv(k).arg.seasonEndDate
    /\ Fulfilled(k) /\ Inv(k).after.available = Inv(k).arg.available - 1

\* --------------------------------------------------------------------- C6
\* C6: a SEASONAL product ordered before a present seasonStart, at any stock
\* level, gets exactly one out-of-stock notification (name), no write, no
\* change of available, and all three flags false.
C6_SeasonalBeforeSeason ==
  \A k \in StrategyInvocations :
    (Seasonal(k) /\ BeforeSeason(k))
    => /\ Inv(k).out.sent = <<sendOutOfStockNotification(Inv(k).arg.name)>>
       /\ WroteNothing(k)
       /\ Inv(k).out.result = ResultNothing

C6_Witness ==
  \E k \in StrategyInvocations :
    /\ Seasonal(k) /\ BeforeSeason(k) /\ Inv(k).arg.available > 0
    /\ Truthy(Inv(k).arg.seasonEndDate) /\ Fulfilled(k)

\* --------------------------------------------------------------------- C7
\* C7: when a SEASONAL product is not sold and T is not before a present
\* seasonStart, a present seasonEnd strictly before T + leadTime days gives
\* exactly one out-of-stock notification, available forced to 0 and persisted
\* whatever it was, and the result failure, updated, not decremented.
C7_SeasonalRestockTooLate ==
  \A k \in StrategyInvocations :
    (/\ Seasonal(k) /\ ~SeasonalSale(k) /\ ~BeforeSeason(k)
     /\ Truthy(Inv(k).arg.seasonEndDate)
     /\ RestockDate(k) > Inv(k).arg.seasonEndDate)
    => /\ Inv(k).out.sent = <<sendOutOfStockNotification(Inv(k).arg.name)>>
       /\ WroteZero(k)
       /\ Fulfilled(k) => Inv(k).after.available = 0
       /\ Inv(k).out.result = ResultUnavailable

\* Stock that was there is wiped: the order came after the season's end.
C7_Witness ==
  \E k \in StrategyInvocations :
    /\ Seasonal(k) /\ Inv(k).arg.available > 0
    /\ Truthy(Inv(k).arg.seasonStartDate) /\ Truthy(Inv(k).arg.seasonEndDate)
    /\ Inv(k).T > Inv(k).arg.seasonEndDate
    /\ Fulfilled(k) /\ Inv(k).after.available = 0

\* --------------------------------------------------------------------- C8
\* C8: when a SEASONAL product is not sold and T is not before a present
\* seasonStart, an absent seasonEnd, or one not before T + leadTime days (equal
\* counts as on time), gives exactly one delay notification (leadTime, name),
\* a write with available unchanged, and the result success, updated, not
\* decremented.
C8_SeasonalDelay ==
  \A k \in StrategyInvocations :
    (/\ Seasonal(k) /\ ~SeasonalSale(k) /\ ~BeforeSeason(k)
     /\ \/ ~Truthy(Inv(k).arg.seasonEndDate)
        \/ RestockDate(k) <= Inv(k).arg.seasonEndDate)
    => /\ Inv(k).out.sent =
            <<sendDelayNotification(Inv(k).arg.leadTime, Inv(k).arg.name)>>
       /\ WroteUnchanged(k)
       /\ Inv(k).out.result = ResultDelayed

\* The restock lands on the season's end, a day of lead time after the order.
C8_Witness ==
  \E k \in StrategyInvocations :
    /\ Seasonal(k) /\ Inv(k).arg.available = 0 /\ Inv(k).arg.leadTime > 0
    /\ Truthy(Inv(k).arg.seasonStartDate)
    /\ RestockDate(k) = Inv(k).arg.seasonEndDate
    /\ Fulfilled(k)

\* --------------------------------------------------------------------- C9
\* C9: an EXPIRABLE product with available = N > 0 and a present expiryDate
\* strictly after T is sold: stored available N-1, all flags true, no
\* expiration notification.
C9_ExpirableInStock ==
  \A k \in StrategyInvocations :
    (/\ Inv(k).arg.type = "EXPIRABLE" /\ Inv(k).arg.available > 0
     /\ Truthy(Inv(k).arg.expiryDate) /\ Inv(k).arg.expiryDate > Inv(k).T)
    => SoldOne(k)

\* A sale of the last unit, after the clock has moved, before the expiry date.
C9_Witness ==
  \E k \in StrategyInvocations :
    /\ Inv(k).arg.type = "EXPIRABLE" /\ Inv(k).arg.available = 1
    /\ Inv(k).T > 0 /\ Inv(k).arg.expiryDate > Inv(k).T
    /\ Fulfilled(k) /\ Inv(k).after.available = Inv(k).arg.available - 1

\* -------------------------------------------------------------------- C10
\* C10: an EXPIRABLE product with a present expiryDate that is expired
\* (expiryDate <= T, equality included, at any stock level) or out of stock
\* (even if not expired) gets exactly one expiration notification (name,
\* expiryDate), available forced to 0 and persisted, and the result failure,
\* updated, not decremented.
C10_ExpirableExpiredOrOutOfStock ==
  \A k \in StrategyInvocations :
    (/\ Inv(k).arg.type = "EXPIRABLE" /\ Truthy(Inv(k).arg.expiryDate)
     /\ \/ Inv(k).arg.expiryDate <= Inv(k).T
        \/ Inv(k).arg.available = 0)
    => /\ Inv(k).out.sent =
            <<sendExpirationNotification(Inv(k).arg.name, Inv(k).arg.expiryDate)>>
       /\ WroteZero(k)
       /\ Fulfilled(k) => Inv(k).after.available = 0
       /\ Inv(k).out.result = ResultUnavailable

\* Stock wiped at the very instant of expiry.
C10_Witness ==
  \E k \in StrategyInvocations :
    /\ Inv(k).arg.type = "EXPIRABLE" /\ Inv(k).arg.available > 0
    /\ Inv(k).arg.expiryDate = Inv(k).T
    /\ Fulfilled(k) /\ Inv(k).after.available = 0

\* -------------------------------------------------------------------- C11
\* C11: an EXPIRABLE product with no expiryDate, at any stock level, fails with
\* all three flags false, no notification, no write, available unchanged.
C11_ExpirableNoExpiryDate ==
  \A k \in StrategyInvocations :
    (Inv(k).arg.type = "EXPIRABLE" /\ ~Truthy(Inv(k).arg.expiryDate))
    => /\ Inv(k).out.result = ResultNothing
       /\ Inv(k).out.sent = <<>>
       /\ WroteNothing(k)
       /\ mem[k[1]][k[2]].available = Inv(k).arg.available

C11_Witness ==
  \E k \in StrategyInvocations :
    /\ Inv(k).arg.type = "EXPIRABLE" /\ ~Truthy(Inv(k).arg.expiryDate)
    /\ Inv(k).arg.available > 0 /\ Fulfilled(k)
    /\ db[Inv(k).arg.id].available = Inv(k).arg.available

\* -------------------------------------------------------------------- C12
Registered(type) == type \in {"NORMAL", "SEASONAL", "EXPIRABLE"}

\* C12: processProductOrder on a product whose type has no strategy fails with
\* 'Unsupported product type: <type>', and nothing else happens: no strategy
\* result, no write, product object and stored row unchanged.  For the three
\* registered types it never fails so.
C12_UnsupportedType ==
  \A k \in Invocations :
    /\ ~Registered(Inv(k).arg.type)
       => /\ Inv(k).out.thrown
          /\ Inv(k).out.message = <<"Unsupported product type: ", Inv(k).arg.type>>
          /\ DOMAIN Inv(k).out = {"thrown", "message"}
          /\ Inv(k).st = "rejected"
          /\ mem[k[1]][k[2]] = Inv(k).arg
          /\ Inv(k).after = Inv(k).before
    /\ Registered(Inv(k).arg.type) => ~Inv(k).out.thrown

C12_Witness ==
  \E k \in Invocations :
    /\ Inv(k).arg.type = "UNKNOWN" /\ Inv(k).arg.available > 0
    /\ Inv(k).out.thrown /\ pc[k[1]] = "rejected"
    /\ db[Inv(k).arg.id] = Inv(k).arg

\* -------------------------------------------------------------------- C13
\* C13: processMultipleProducts on n products of registered types returns
\* exactly n results, the i-th being the result of processing the i-th input
\* product, in whatever order the per-product operations complete.
C13_ResultsInInputOrder ==
  \A r \in Runs :
    pc[r] = "resolved"
    => /\ Len(returned[r]) = Len(orderProducts)
       /\ \A i \in 1..Len(orderProducts) :
            /\ task[r][i].arg.id = orderProducts[i]
            /\ Registered(task[r][i].arg.type)
            /\ returned[r][i] = task[r][i].out.result

\* A batch of two whose second product settled first, with different results.
C13_Witness ==
  \E r \in Runs :
    /\ pc[r] = "resolved" /\ Len(returned[r]) = 2
    /\ task[r][2].rank < task[r][1].rank
    /\ returned[r][1] = ResultDecremented
    /\ returned[r][2] = ResultUnavailable

\* -------------------------------------------------------------------- C14
\* What processProductOrder does to a product processed on its own at time T:
\* the row it leaves stored.
StoredAlone(row, T) ==
  LET alone == processProductOrder(row, T)
  IN IF alone.thrown THEN row
     ELSE IF alone.writes = <<>> THEN row
     ELSE alone.writes[1].set

\* C14: in a batch each product is processed as if alone.  The strategy gets
\* the product as it was stored when the batch began, whatever the other
\* products' operations have done meanwhile; until its own write is done its
\* row is untouched, and from then on the row is what processing it alone at
\* the same time leaves; its result is the one of processing it alone.
C14_BatchIndependent ==
  \A k \in Invocations :
    /\ Inv(k).arg = Inv(k).before
    /\ Inv(k).st = "writing" => db[Inv(k).arg.id] = Inv(k).before
    /\ Inv(k).st # "writing"
       => db[Inv(k).arg.id] = StoredAlone(Inv(k).before, Inv(k).T)
    /\ pc[k[1]] = "resolved"
       => returned[k[1]][k[2]] = processProductOrder(Inv(k).before, Inv(k).T).result

\* Both products of a batch are done, the second first: the first was sold
\* and is one unit lower, the second was out of stock, got a delay
\* notification and is still at zero.
C14_Witness ==
  \E r \in Runs :
    /\ pc[r] = "resolved" /\ Len(task[r]) = 2
    /\ task[r][2].rank < task[r][1].rank
    /\ task[r][1].out.result.availableDecremented
    /\ db[task[r][1].arg.id].available = task[r][1].before.available - 1
    /\ task[r][2].out.result = ResultDelayed
    /\ db[task[r][2].arg.id].available = 0

\* -------------------------------------------------------------------- C15
\* The positions of the batch whose product has no strategy.
Offending(r) == {i \in 1..Len(mem[r]) : ~Registered(mem[r][i].type)}

FirstOffending(r) == CHOOSE i \in Offending(r) : \A j \in Offending(r) : i <= j

\* C15: a batch with a product of unsupported type, at whatever position, never
\* resolves: it fails with that product's error and the caller gets no list
\* of results.
C15_BatchFailsAsAWhole ==
  \A r \in Runs :
    (pc[r] \in {"resolved", "rejected"} /\ Offending(r) # {})
    => /\ pc[r] = "rejected"
       /\ returned[r] =
            <<"Unsupported product type: ", mem[r][FirstOffending(r)].type>>

\* The offending product is the last of the batch and the one before it has
\* been sold and written.
C15_Witness ==
  \E r \in Runs :
    /\ pc[r] = "rejected" /\ Offending(r) = {2}
    /\ task[r][1].st = "fulfilled"
    /\ task[r][1].out.result = ResultDecremented

\* -------------------------------------------------------------------- C16
\* C16: when a batch has failed on an unsupported type, every other product of
\* it, before or after the offending one, has been processed all the same: its
\* notification is sent, and its write is done and stays stored, or is still
\* on its way and will be applied.
C16_NoRollback ==
  \A r \in Runs :
    pc[r] = "rejected"
    => \A i \in 1..Len(task[r]) \ Offending(r) :
         /\ task[r][i].st \in {"writing", "fulfilled"}
         /\ task[r][i].out.sent
              = processProductOrder(task[r][i].before, task[r][i].T).sent
         /\ task[r][i].st = "writing" => ENABLED CompleteWrite(r, i)
         /\ task[r][i].st = "fulfilled"
            => db[task[r][i].arg.id] = StoredAlone(task[r][i].before, task[r][i].T)

\* The first product is the offending one; the second was notified of a delay
\* and written after the batch had failed.
C16_Witness ==
  \E r \in Runs :
    /\ pc[r] = "rejected" /\ Offending(r) = {1}
    /\ task[r][2].st = "fulfilled"
    /\ task[r][2].rank = 2
    /\ Len(task[r][2].out.sent) = 1
    /\ task[r][2].out.writes # <<>>
    /\ db[task[r][2].arg.id] = task[r][2].out.writes[1].set

\* -------------------------------------------------------------------- C17
\* Two invocations of different requests that each got the same product with
\* one unit left and each sold it.
SoldSameLastUnit(k1, k2) ==
  /\ k1[1] # k2[1]
  /\ Inv(k1).arg.id = Inv(k2).arg.id
  /\ Inv(k1).arg.available = 1 /\ Inv(k2).arg.available = 1
  /\ Inv(k1).out.result.availableDecremented
  /\ Inv(k2).out.result.availableDecremented

\* C17: nothing locks or conditions the read-decide-write sequence.  Two
\* requests that loaded the same product with available = 1 and both took the
\* decrement branch both return success and decremented, each writes
\* available = 0 over whatever is stored, and the row ends at 0: two units
\* sold from a stock of one.
C17_LostUpdate ==
  \A k1 \in StrategyInvocations : \A k2 \in StrategyInvocations :
    SoldSameLastUnit(k1, k2)
    => /\ Inv(k1).out.result = ResultDecremented
       /\ Inv(k2).out.result = ResultDecremented
       /\ Inv(k1).out.writes[1].set.available = 0
       /\ Fulfilled(k1) => Inv(k1).after.available = 0
       /\ (Fulfilled(k1) /\ Fulfilled(k2)) => db[Inv(k1).arg.id].available = 0

\* Both requests found one unit stored when their strategy ran, both sold it,
\* both writes are done and both batches resolved.
C17_Witness ==
  \E k1 \in StrategyInvocations : \E k2 \in StrategyInvocations :
    /\ SoldSameLastUnit(k1, k2)
    /\ Inv(k1).before.available = 1 /\ Inv(k2).before.available = 1
    /\ Fulfilled(k1) /\ Fulfilled(k2)
    /\ pc[k1[1]] = "resolved" /\ pc[k2[1]] = "resolved"
    /\ returned[k1[1]][k1[2]].success /\ returned[k2[1]][k2[2]].success
    /\ db[Inv(k1).arg.id].available = 0

\* -------------------------------------------------------------------- C18
\* The requests whose call is over (the order holds one product).
CallsMade == {r \in Runs : Len(task[r]) = 1 /\ task[r][1].st \in {"fulfilled", "rejected"}}

\* The stock the first call found.
StockAtFirstCall == task[1][1].arg.available

Max(a, b) == IF a >= b THEN a ELSE b

\* Stock apart, the product could be sold at the time of this call: always for
\* NORMAL, inside a season with both bounds for SEASONAL, before a present
\* expiry date for EXPIRABLE.
Sellable(k) ==
  /\ Registered(Inv(k).arg.type)
  /\ Inv(k).arg.type = "SEASONAL" => InSeason(k)
  /\ Inv(k).arg.type = "EXPIRABLE"
     => (Truthy(Inv(k).arg.expiryDate) /\ Inv(k).arg.expiryDate > Inv(k).T)

InStockPath(k) ==
  /\ Inv(k).out.result.availableDecremented
  /\ Inv(k).out.product.available = Inv(k).arg.available - 1

\* C19: a strategy invocation calls at most one notification operation, and
\* none when it takes the in-stock path.
C19_AtMostOneNotification ==
  \A k \in StrategyInvocations :
    /\ Len(Inv(k).out.sent) <= 1
    /\ InStockPath(k) => Inv(k).out.sent = <<>>

\* One request sold the last unit without a notification; the next found
\* none left and made exactly one notification call.
C19_Witness ==
  \E k1 \in StrategyInvocations : \E k2 \in StrategyInvocations :
    /\ InStockPath(k1) /\ Inv(k1).arg.available = 1 /\ Inv(k1).out.sent = <<>>
    /\ Inv(k2).arg.available = 0 /\ Len(Inv(k2).out.sent) = 1
    /\ Fulfilled(k1) /\ Fulfilled(k2)

\* -------------------------------------------------------------------- C20
\* C20 as stated: every outcome with success false comes with a notification
\* call made in the same invocation.
C20_Original ==
  \A k \in StrategyInvocations :
    ~Inv(k).out.result.success => Len(Inv(k).out.sent) >= 1

\* The two failures that notify nobody: a NORMAL product with no stock and no
\* lead time, and an EXPIRABLE product with no expiry date.
SilentFailure(k) ==
  \/ /\ Inv(k).arg.type = "NORMAL"
     /\ Inv(k).arg.available = 0 /\ Inv(k).arg.leadTime = 0
  \/ /\ Inv(k).arg.type = "EXPIRABLE"
     /\ ~Truthy(Inv(k).arg.expiryDate)

\* C20, amended: every outcome with success false comes with a notification
\* call made in the same invocation, except for a NORMAL product with
\* available = 0 and leadTime = 0 and for an EXPIRABLE product with no
\* expiryDate, which fail without any notification.
C20_FailureNotified ==
  \A k \in StrategyInvocations :
    /\ (~Inv(k).out.result.success /\ ~SilentFailure(k)) => Len(Inv(k).out.sent) = 1
    /\ SilentFailure(k) => (~Inv(k).out.result.success /\ Inv(k).out.sent = <<>>)

\* One request failed before the season with its out-of-stock notification.
C20_Witness ==
  \E k \in StrategyInvocations :
    /\ Seasonal(k) /\ BeforeSeason(k) /\ ~Inv(k).out.result.success
    /\ Inv(k).out.sent = <<sendOutOfStockNotification(Inv(k).arg.name)>>
    /\ Fulfilled(k)

\* -------------------------------------------------------------------- C21
\* C21 as stated: productUpdated is true exactly when the stored record, read
\* back once the invocation is over, differs from what it was before it.
C21_Original ==
  \A k \in StrategyInvocations :
    Fulfilled(k) => (Inv(k).out.result.productUpdated <=> Inv(k).after # Inv(k).before)

\* The invocation changed a field of the product it was given.
ChangedProduct(k) ==
  \/ Inv(k).out.result.availableDecremented
  \/ ~Inv(k).out.result.success /\ Inv(k).arg.available > 0

\* C21, amended: productUpdated is true exactly when the invocation wrote the
\* product back.  With productUpdated false nothing is written and the stored
\* record is identical.  With productUpdated true the stored record becomes
\* the product as the invocation left it, which differs from the product it
\* was given only if it sold a unit or forced a positive available to 0: the
\* delay branches, and a force to 0 of a product already at 0, write the
\* record back unchanged.
C21_UpdatedMeansWritten ==
  \A k \in StrategyInvocations :
    /\ ~Inv(k).out.result.productUpdated => WroteNothing(k)
    /\ Inv(k).out.result.productUpdated
         => /\ Inv(k).out.writes = <<DbUpdate(Inv(k).out.product)>>
            /\ Fulfilled(k) => Inv(k).after = Inv(k).out.product
            /\ Inv(k).out.product # Inv(k).arg <=> ChangedProduct(k)

\* A NORMAL product with no stock and a lead time: productUpdated is true and
\* the stored record is what it was.
C21_Witness ==
  \E k \in StrategyInvocations :
    /\ Inv(k).arg.type = "NORMAL" /\ Inv(k).out.result = ResultDelayed
    /\ Fulfilled(k)
    /\ Inv(k).after = Inv(k).before /\ Inv(k).before = Inv(k).arg

\* -------------------------------------------------------------------- C22
\* Some operation of the request's batch has failed.
SomeRejected(r) == \E i \in 1..Len(task[r]) : task[r][i].st = "rejected"

\* Some operation of the request's batch still awaits its write.
SomeWriting(r) == \E i \in 1..Len(task[r]) : task[r][i].st = "writing"

\* C22: processMultipleProducts starts the operation of every product without
\* waiting for an earlier one to finish; it resolves only once every operation
\* is over, its write done; and once the products are all started and one
\* operation has failed it can reject at once, whatever writes are pending.
C22_FireOffAndAwaitAll ==
  /\ (pc[1] \in {"loaded", "awaiting"} /\ NextIndex(1) # 0) => ENABLED StartProduct(1)
  /\ SomeWriting(1) => ~ENABLED ResolveBatch(1)
  /\ pc[1] = "resolved"
       => \A i \in 1..Len(task[1]) :
            /\ task[1][i].st = "fulfilled"
            /\ task[1][i].out.writes # <<>>
                 => db[task[1][i].arg.id] = task[1][i].out.writes[1].set
  /\ (pc[1] = "awaiting" /\ NextIndex(1) = 0 /\ SomeRejected(1)) => ENABLED RejectBatch(1)
  /\ pc[1] = "rejected" => (SomeRejected(1) /\ NextIndex(1) = 0)

\* The batch resolved, and the write of the second product was done before
\* the write of the first: the second was started while the first was pending.
C22_Witness ==
  /\ pc[1] = "resolved"
  /\ Len(task[1]) >= 2
  /\ task[1][1].out.writes # <<>> /\ task[1][2].out.writes # <<>>
  /\ task[1][2].rank < task[1][1].rank

\* -------------------------------------------------------------------- C23
\* The invocations of a SEASONAL or EXPIRABLE strategy that have made their
\* comparisons.
ClockInvocations ==
  {k \in Invocations : Inv(k).st # "running" /\ ReadsClock(Inv(k).arg.type)}

\* The decision an EXPIRABLE or SEASONAL strategy makes on value T alone.
DecisionAt(k) ==
  IF Inv(k).arg.type = "EXPIRABLE"
  THEN IF /\ Inv(k).arg.available > 0 /\ Truthy(Inv(k).arg.expiryDate)
          /\ Inv(k).arg.expiryDate > Inv(k).T
       THEN ResultDecremented
       ELSE IF Truthy(Inv(k).arg.expiryDate) THEN ResultUnavailable ELSE ResultNothing
  ELSE IF SeasonalSale(k) THEN ResultDecremented
  ELSE IF BeforeSeason(k) THEN ResultNothing
  ELSE IF Truthy(Inv(k).arg.seasonEndDate) /\ RestockDate(k) > Inv(k).arg.seasonEndDate
       THEN ResultUnavailable
  ELSE ResultDelayed

\* C23: a SEASONAL or EXPIRABLE invocation reads the clock once, and the
\* in-season test, the before-season test, the restock date and the expiry
\* test all use the value T it read, however far the clock has advanced by the
\* time they are made.
C23_SingleCurrentDate ==
  \A k \in ClockInvocations :
    /\ Inv(k).T \in 0..Inv(k).decidedAt
    /\ Inv(k).out.result = DecisionAt(k)
    /\ Inv(k).out = processProductOrder(Inv(k).arg, Inv(k).T)

\* A SEASONAL product read the clock on the last instant of its season and
\* made its comparisons after the season was over: it is sold.
C23_Witness ==
  \E k \in ClockInvocations :
    /\ Seasonal(k) /\ Inv(k).arg.available > 0
    /\ Truthy(Inv(k).arg.seasonStartDate)
    /\ Inv(k).T = Inv(k).arg.seasonEndDate
    /\ Inv(k).decidedAt > Inv(k).arg.seasonEndDate
    /\ Inv(k).out.result = ResultDecremented
    /\ Fulfilled(k)

\* -------------------------------------------------------------------- C24
\* A season bound of the product is not set.
MissingSeasonBound(k) ==
  ~Truthy(Inv(k).arg.seasonStartDate) \/ ~Truthy(Inv(k).arg.seasonEndDate)

\* C24: no product is sold outside its validity window.  A SEASONAL result
\* with availableDecremented had both bounds set and seasonStart <= T <=
\* seasonEnd; an EXPIRABLE one had expiryDate set and expiryDate > T; and a
\* SEASONAL product with stock and a missing bound is never decremented.
C24_SoldOnlyInWindow ==
  \A k \in StrategyInvocations :
    /\ (Seasonal(k) /\ Inv(k).out.result.availableDecremented) => InSeason(k)
    /\ (Inv(k).arg.type = "EXPIRABLE" /\ Inv(k).out.result.availableDecremented)
         => (Truthy(Inv(k).arg.expiryDate) /\ Inv(k).arg.expiryDate > Inv(k).T)
    /\ (Seasonal(k) /\ Inv(k).arg.available > 0 /\ MissingSeasonBound(k))
         => /\ ~Inv(k).out.result.availableDecremented
            /\ Inv(k).out.product.available \in {Inv(k).arg.available, 0}
            /\ \A w \in 1..Len(Inv(k).out.writes) :
                 Inv(k).out.writes[w].set.available \in {Inv(k).arg.available, 0}

\* A SEASONAL product with two units, a start that has passed and no end: the
\* order is over and nothing was sold.
C24_Witness ==
  \E k \in StrategyInvocations :
    /\ Seasonal(k) /\ Inv(k).arg.available = 2
    /\ Truthy(Inv(k).arg.seasonStartDate) /\ Inv(k).arg.seasonStartDate <= Inv(k).T
    /\ ~Truthy(Inv(k).arg.seasonEndDate)
    /\ Fulfilled(k)
    /\ ~Inv(k).out.result.availableDecremented
    /\ Inv(k).after.available = 2

\* -------------------------------------------------------------------- C25
\* C25: the three flags agree, for every strategy and every input.
\* availableDecremented implies success and productUpdated and an available
\* one lower than it was; a failure never reports a decrement; productUpdated
\* is true exactly when the invocation issued a write.
C25_FlagsConsistent ==
  \A k \in StrategyInvocations :
    /\ Inv(k).out.result.availableDecremented
         => /\ Inv(k).out.result.success
            /\ Inv(k).out.result.productUpdated
            /\ Inv(k).out.product.available = Inv(k).arg.available - 1
            /\ Len(Inv(k).out.writes) = 1
            /\ Inv(k).out.writes[1].set.available = Inv(k).arg.available - 1
    /\ ~Inv(k).out.result.success => ~Inv(k).out.result.availableDecremented
    /\ Inv(k).out.result.productUpdated <=> Inv(k).out.writes # <<>>
    /\ Inv(k).out.result \in {ResultDecremented, ResultDelayed, ResultUnavailable,
                              ResultNothing}

\* One request sold the last unit of a product with no lead time, all flags
\* true; the next found nothing and returned all flags false.
C25_Witness ==
  \E k1 \in StrategyInvocations : \E k2 \in StrategyInvocations :
    /\ Inv(k1).out.result = ResultDecremented /\ Fulfilled(k1)
    /\ Inv(k1).after.available = Inv(k1).arg.available - 1
    /\ Inv(k2).out.result = ResultNothing /\ Fulfilled(k2)
    /\ Inv(k2).out.writes = <<>>

\* -------------------------------------------------------------------- C26
\* C26: a product's stored available never increases, whatever operations
\* run: a step leaves it unchanged, lowers it by 1 or sets it to 0, so that
\* an available of 0 stays 0.
C26_AvailableNeverIncreases ==
  [][\A p \in Prods :
       /\ db'[p].available <= db[p].available
       /\ db'[p].available \in {db[p].available, db[p].available - 1, 0}
       /\ db[p].available = 0 => db'[p].available = 0]_vars

\* -------------------------------------------------------------------- C27
\* Two product records that agree on every field but available.
SameButAvailable(p, q) == q = [p EXCEPT !.available = q.available]

\* Every invocation so far left the product object it was given as it was but
\* for available, and the update it issued carries that object and names the
\* row of the product's id.
InvocationsKeepFrame ==
  \A k \in StrategyInvocations :
    /\ SameButAvailable(Inv(k).arg, Inv(k).out.product)
    /\ \A w \in 1..Len(Inv(k).out.writes) :
         /\ SameButAvailable(Inv(k).arg, Inv(k).out.writes[w].set)
         /\ Inv(k).out.writes[w].whereId = Inv(k).arg.id

\* C27: a strategy changes only available.  No step modifies the id, type,
\* name, leadTime, expiryDate or season dates of a stored row or of a product
\* object, and the write issued for product p changes at most the row whose
\* id is p.id.
C27_OnlyAvailableChanges ==
  [][/\ \A p \in Prods : SameButAvailable(db[p], db'[p])
     /\ \A p \in Prods : db'[p].id = p
     /\ \A r \in Runs : \A i \in 1..Len(task[r]) :
          (db' # db /\ task[r][i].st = "writing" /\ task'[r][i].st = "fulfilled")
            => \A p \in Prods : p # task[r][i].arg.id => db'[p] = db[p]
     /\ InvocationsKeepFrame']_vars

\* An EXPIRABLE product with stock was forced to 0: its row differs from what
\* it was in available alone, and the other row is what it was.
C27_Witness ==
  \E k \in StrategyInvocations :
    /\ Inv(k).arg.type = "EXPIRABLE" /\ Inv(k).arg.available > 0
    /\ Fulfilled(k) /\ Inv(k).out.writes # <<>>
    /\ Inv(k).after.available = 0
    /\ Inv(k).after = [Inv(k).before EXCEPT !.available = 0]
    /\ Inv(k).after.expiryDate = Inv(k).arg.expiryDate
    /\ \A p \in Prods : p # Inv(k).arg.id => db[p] = DefaultProduct(p)

====
